---- MODULE Spec2Model ----
(***************************************************************************)
(* Model of stwo_cairo_prover/crates/prover/src/cairo_air/mod.rs: the      *)
(* claim aggregation, the commit/challenge transcript, the logup           *)
(* consistency check, the component set builder and the prove_cairo /      *)
(* verify_cairo pipelines.                                                 *)
(*                                                                         *)
(* The channel, the commitment scheme, the STARK engine, the field and the *)
(* sub-components are collaborators whose code is not in mod.rs; they are  *)
(* modelled by what mod.rs relies on:                                      *)
(*   - the channel digest is the sequence of absorbed items (no            *)
(*     collisions); drawn field elements are a function of that sequence;  *)
(*   - a Merkle root is the sequence of committed columns (no collisions); *)
(*   - the extension field is the ring of integers modulo FieldOrder;      *)
(*   - the engine's verify accepts exactly what its prove sealed: the same *)
(*     components, the same channel state and trees whose declared sizes   *)
(*     are those of the committed columns.                                 *)
(***************************************************************************)
EXTENDS Integers, Sequences, FiniteSets, TLC

\* ------------------------------------------------------------------ bounds
\* Order of the model's field (stands for QM31).
FieldOrder == 5
\* Longest list of public memory addresses of an input.
MaxPubMem == 1
\* ------------------------------------------------------------- constants
\* gen_is_first::<SimdBackend>(18): the range_check_9_9 selector column.
RC9_9_CONST_LOG_SIZE == 18

\* --------------------------------------------------------------- helpers
Felts == 0..(FieldOrder - 1)
FAdd(a, b) == (a + b) % FieldOrder
FMul(a, b) == (a * b) % FieldOrder
FNeg(a) == (FieldOrder - (a % FieldOrder)) % FieldOrder

RECURSIVE FPow(_, _)
FPow(a, n) == IF n = 0 THEN 1 % FieldOrder ELSE FMul(a, FPow(a, n - 1))

\* FieldExpOps::inverse, by Fermat's exponent; zero, which has no inverse, maps
\* to zero (in QM31 a zero denominator has negligible probability).
inverse(a) == FPow(a, FieldOrder - 2)

RECURSIVE SumSeq(_)
SumSeq(s) == IF s = <<>> THEN 0 ELSE FAdd(Head(s), SumSeq(Tail(s)))

RECURSIVE Flatten(_)
Flatten(ss) == IF ss = <<>> THEN <<>> ELSE Head(ss) \o Flatten(Tail(ss))

Front(s) == SubSeq(s, 1, Len(s) - 1)
Min(a, b) == IF a <= b THEN a ELSE b

\* The memory addresses of an input.
Addrs == {1, 2}
\* A memory value ([u32; 8]) is a two-bit number in the model.
Vals == 0..3
VmStates == 0..1
\* Log row counts the trace generators of an input can report.
LogRows == {4, 5}
\* Log size of the memory tables.
MemLogSize == 4

\* ----------------------------------------------------------- the channel
\* Blake2sChannel: the digest and the number of draws since the last mix.
ChannelDefault == [digest |-> <<>>, n_draws |-> 0]

Item(tag, kind, n, cols) == [tag |-> tag, kind |-> kind, n |-> n, cols |-> cols]

Mix(channel, item) == [digest |-> Append(channel.digest, item), n_draws |-> 0]

RECURSIVE ColsCode(_)
ColsCode(cols) ==
    IF cols = <<>> THEN 0 ELSE (Head(cols).log_size + ColsCode(Tail(cols))) % FieldOrder

RECURSIVE DigestCode(_)
DigestCode(d) ==
    IF d = <<>> THEN 1 % FieldOrder
    ELSE (2 * DigestCode(Front(d)) + d[Len(d)].n + ColsCode(d[Len(d)].cols) + 1)
             % FieldOrder

\* Channel::draw_felt: <<the element drawn, the channel after the draw>>.
draw_felt(channel) ==
    << (DigestCode(channel.digest) + channel.n_draws) % FieldOrder,
       [channel EXCEPT !.n_draws = @ + 1] >>

\* RelationElements::draw of one lookup relation: z, then alpha.
RelationElements_draw(channel) ==
    LET a == draw_felt(channel)
        b == draw_felt(a[2])
    IN  << [z |-> a[1], alpha |-> b[1]], b[2] >>

RECURSIVE CombineFrom(_, _, _)
CombineFrom(alpha, values, i) ==
    IF i > Len(values) THEN 0
    ELSE FAdd(FMul(values[i] % FieldOrder, FPow(alpha, i - 1)),
              CombineFrom(alpha, values, i + 1))

\* RelationElements::combine: sum of values[i] * alpha^i, minus z.
combine(el, values) == FAdd(CombineFrom(el.alpha, values, 1), FNeg(el.z))

\* crate::felt::split_f252: the limbs of a memory value, low limb first.
split_f252(val) == << val % 2, val \div 2 >>

\* ------------------------------------------------------ sub-components
\* A sub-component Claim is its log size; an InteractionClaim its claimed_sum.
SubClaim(log_size) == [log_size |-> log_size]
SubInteractionClaim(sum) == [claimed_sum |-> sum]

\* One enumerated sub-component occurrence: its kind, its index among the
\* instances of that kind (0 for a single-instance kind) and its value.
Entry(kind, idx, val) == [kind |-> kind, idx |-> idx, val |-> val]

\* <sub-component>::Claim::mix_into.
Claim_mix_into(e, channel) == Mix(channel, Item("claim", e.kind, e.val.log_size, <<>>))

\* <sub-component>::InteractionClaim::mix_into.
InteractionClaim_mix_into(e, channel) ==
    Mix(channel, Item("interaction_claim", e.kind, e.val.claimed_sum, <<>>))

\* <sub-component>::Claim::log_sizes: one column per tree (base, interaction,
\* constant), each of the claim's log size.
Claim_log_sizes(e) == << <<e.val.log_size>>, <<e.val.log_size>>, <<e.val.log_size>> >>

\* TreeVec::concat_cols.
concat_cols(tvs) ==
    [t \in 1..3 |-> Flatten([i \in 1..Len(tvs) |-> tvs[i][t]])]

RECURSIVE MixClaims(_, _)
MixClaims(entries, channel) ==
    IF entries = <<>> THEN channel
    ELSE MixClaims(Tail(entries), Claim_mix_into(Head(entries), channel))

RECURSIVE MixInteractionClaims(_, _)
MixInteractionClaims(entries, channel) ==
    IF entries = <<>> THEN channel
    ELSE MixInteractionClaims(Tail(entries), InteractionClaim_mix_into(Head(entries), channel))

RetEntries(ret) == [i \in 1..Len(ret) |-> Entry("ret", i, ret[i])]

\* ----------------------------------------------------------- CairoClaim
\* The sub-component claims CairoClaim::mix_into absorbs, in order.
CairoClaim_mix_into_entries(claim) ==
    RetEntries(claim.ret)
    \o << Entry("range_check_builtin", 0, claim.range_check_builtin),
          Entry("memory_addr_to_id", 0, claim.memory_addr_to_id),
          Entry("memory_id_to_value", 0, claim.memory_id_to_value) >>

\* Mutant: the boundary states and the public memory are absorbed as well.
CairoClaim_mix_into_with_public_inputs(claim, channel) ==
    MixClaims(CairoClaim_mix_into_entries(claim),
              Mix(Mix(Mix(channel,
                          Item("public_memory", "", Len(claim.public_memory), <<>>)),
                      Item("initial_state", "", claim.initial_state, <<>>)),
                  Item("final_state", "", claim.final_state, <<>>)))

\* Lines 52-58.
CairoClaim_mix_into(claim, channel) ==
    MixClaims(CairoClaim_mix_into_entries(claim), channel)

\* The sub-component claims chained by CairoClaim::log_sizes, in order.
CairoClaim_log_sizes_entries(claim) ==
    RetEntries(claim.ret)
    \o << Entry("range_check_builtin", 0, claim.range_check_builtin),
          Entry("memory_addr_to_id", 0, claim.memory_addr_to_id),
          Entry("memory_id_to_value", 0, claim.memory_id_to_value),
          Entry("range_check9_9", 0, claim.range_check9_9) >>

CairoClaim_log_sizes(claim) ==
    LET es == CairoClaim_log_sizes_entries(claim)
    IN  concat_cols([i \in 1..Len(es) |-> Claim_log_sizes(es[i])])

\* ------------------------------------------------- CairoInteractionElements
CairoInteractionElements_draw(channel) ==
    LET a == RelationElements_draw(channel)
        b == RelationElements_draw(a[2])
        c == RelationElements_draw(b[2])
    IN  << [memory_addr_to_id_lookup |-> a[1],
            memory_id_to_value_lookup |-> b[1],
            range9_9_lookup |-> c[1]],
           c[2] >>

\* ------------------------------------------------- CairoInteractionClaim
\* The fields of CairoInteractionClaim, in declaration order.
CairoInteractionClaim_fields(ic) ==
    RetEntries(ic.ret)
    \o << Entry("range_check_builtin", 0, ic.range_check_builtin),
          Entry("memory_addr_to_id", 0, ic.memory_addr_to_id),
          Entry("memory_id_to_value", 0, ic.memory_id_to_value),
          Entry("range_check9_9", 0, ic.range_check9_9) >>

\* The interaction claims CairoInteractionClaim::mix_into absorbs, in order.
CairoInteractionClaim_mix_into_entries(ic) ==
    RetEntries(ic.ret)
    \o << Entry("range_check_builtin", 0, ic.range_check_builtin),
          Entry("memory_addr_to_id", 0, ic.memory_addr_to_id),
          Entry("memory_id_to_value", 0, ic.memory_id_to_value) >>

CairoInteractionClaim_mix_into(ic, channel) ==
    MixInteractionClaims(CairoInteractionClaim_mix_into_entries(ic), channel)

\* ------------------------------------------------------ lookup_sum_valid
\* The inverse memory-value relation term of one public memory entry.
public_memory_term(elements, entry) ==
    inverse(combine(elements.memory_id_to_value_lookup,
                    <<entry.addr>> \o split_f252(entry.val)))

public_memory_sum(claim, elements) ==
    SumSeq([i \in 1..Len(claim.public_memory) |->
                public_memory_term(elements, claim.public_memory[i])])

\* interaction_claim.ret[0] is an index out of bounds on an empty ret.
lookup_sum_panics(interaction_claim) == Len(interaction_claim.ret) = 0

\* Mutant: the range_check9_9 sum is left out.
lookup_sum_terms_without_range_check9_9(interaction_claim) ==
    << interaction_claim.ret[1].claimed_sum,
       interaction_claim.range_check_builtin.claimed_sum,
       interaction_claim.memory_addr_to_id.claimed_sum,
       interaction_claim.memory_id_to_value.claimed_sum >>

\* The claimed sums lookup_sum_valid adds, in order.
lookup_sum_terms(interaction_claim) ==
    << interaction_claim.range_check9_9.claimed_sum,
       interaction_claim.ret[1].claimed_sum,
       interaction_claim.range_check_builtin.claimed_sum,
       interaction_claim.memory_addr_to_id.claimed_sum,
       interaction_claim.memory_id_to_value.claimed_sum >>

lookup_sum_valid(claim, elements, interaction_claim) ==
    FAdd(public_memory_sum(claim, elements),
         SumSeq(lookup_sum_terms(interaction_claim))) = 0

\* ------------------------------------------------------- CairoComponents
\* TraceLocationAllocator::default: the next free column of each tree.
AllocatorDefault == <<0, 0, 0>>

\* <sub-component>::Component::new: the component takes the next column of
\* each tree; <<the component, the allocator after it>>.
Component_new(alloc, kind, idx, log_size, elements, claimed_sum) ==
    << [kind |-> kind, idx |-> idx, log_size |-> log_size,
        elements |-> elements, claimed_sum |-> claimed_sum,
        location |-> alloc],
       [t \in 1..3 |-> alloc[t] + 1] >>

RECURSIVE RetComponents(_, _, _, _, _)
RetComponents(alloc, claims, iclaims, elements, i) ==
    IF i > Min(Len(claims), Len(iclaims)) THEN << <<>>, alloc >>
    ELSE LET c == Component_new(alloc, "ret", i, claims[i].log_size,
                                <<elements.memory_id_to_value_lookup>>,
                                iclaims[i].claimed_sum)
             rest == RetComponents(c[2], claims, iclaims, elements, i + 1)
         IN  << <<c[1]>> \o rest[1], rest[2] >>

\* Mutant: the range_check_builtin evaluator is given the memory_addr_to_id
\* relation.
CairoComponents_new_miswired(cairo_claim, interaction_elements, interaction_claim) ==
    LET r == RetComponents(AllocatorDefault, cairo_claim.ret, interaction_claim.ret,
                           interaction_elements, 1)
        b == Component_new(r[2], "range_check_builtin", 0,
                           cairo_claim.range_check_builtin.log_size,
                           <<interaction_elements.memory_addr_to_id_lookup>>,
                           interaction_claim.range_check_builtin.claimed_sum)
        a == Component_new(b[2], "memory_addr_to_id", 0,
                           cairo_claim.memory_addr_to_id.log_size,
                           <<interaction_elements.memory_addr_to_id_lookup>>,
                           interaction_claim.memory_addr_to_id.claimed_sum)
        v == Component_new(a[2], "memory_id_to_value", 0,
                           cairo_claim.memory_id_to_value.log_size,
                           <<interaction_elements.memory_id_to_value_lookup,
                             interaction_elements.range9_9_lookup>>,
                           interaction_claim.memory_id_to_value.claimed_sum)
        n == Component_new(v[2], "range_check9_9", 0, RC9_9_CONST_LOG_SIZE,
                           <<interaction_elements.range9_9_lookup>>,
                           interaction_claim.range_check9_9.claimed_sum)
    IN  [ret |-> r[1], range_check_builtin |-> b[1], memory_addr_to_id |-> a[1],
         memory_id_to_value |-> v[1], range_check9_9 |-> n[1]]

\* Lines 149-210.
CairoComponents_new(cairo_claim, interaction_elements, interaction_claim) ==
    LET r == RetComponents(AllocatorDefault, cairo_claim.ret, interaction_claim.ret,
                           interaction_elements, 1)
        b == Component_new(r[2], "range_check_builtin", 0,
                           cairo_claim.range_check_builtin.log_size,
                           <<interaction_elements.memory_id_to_value_lookup>>,
                           interaction_claim.range_check_builtin.claimed_sum)
        a == Component_new(b[2], "memory_addr_to_id", 0,
                           cairo_claim.memory_addr_to_id.log_size,
                           <<interaction_elements.memory_addr_to_id_lookup>>,
                           interaction_claim.memory_addr_to_id.claimed_sum)
        v == Component_new(a[2], "memory_id_to_value", 0,
                           cairo_claim.memory_id_to_value.log_size,
                           <<interaction_elements.memory_id_to_value_lookup,
                             interaction_elements.range9_9_lookup>>,
                           interaction_claim.memory_id_to_value.claimed_sum)
        n == Component_new(v[2], "range_check9_9", 0, RC9_9_CONST_LOG_SIZE,
                           <<interaction_elements.range9_9_lookup>>,
                           interaction_claim.range_check9_9.claimed_sum)
    IN  [ret |-> r[1], range_check_builtin |-> b[1], memory_addr_to_id |-> a[1],
         memory_id_to_value |-> v[1], range_check9_9 |-> n[1]]

provers(cs) ==
    cs.ret \o << cs.range_check_builtin, cs.memory_addr_to_id,
                 cs.memory_id_to_value, cs.range_check9_9 >>

\* Mutant: the verifier's view leaves out the range_check9_9 component.
components_without_range_check9_9(cs) ==
    cs.ret \o << cs.range_check_builtin, cs.memory_addr_to_id, cs.memory_id_to_value >>

components(cs) ==
    cs.ret \o << cs.range_check_builtin, cs.memory_addr_to_id,
                 cs.memory_id_to_value, cs.range_check9_9 >>

\* ------------------------------------------------- commitment scheme, engine
Column(owner, log_size) == [owner |-> owner, log_size |-> log_size]
ColumnSizes(cols) == [j \in 1..Len(cols) |-> cols[j].log_size]

\* TreeBuilder::commit: the root of the columns is mixed into the channel.
TreeBuilder_commit(cols, channel) == Mix(channel, Item("root", "", 0, cols))

\* CommitmentSchemeVerifier::commit: the root is mixed into the channel and
\* recorded with its declared column sizes.
Verifier_commit(root, sizes, channel) ==
    << [root |-> root, sizes |-> sizes], Mix(channel, Item("root", "", 0, root)) >>

\* stwo prove: what a successful run seals into the proof.
Engine_prove(comps, channel, trees) ==
    [commitments |-> trees, seal |-> [components |-> comps, channel |-> channel]]

\* stwo verify: accepts exactly what prove sealed.
Engine_verify(comps, channel, trees, stark_proof) ==
    /\ stark_proof.seal.components = comps
    /\ stark_proof.seal.channel = channel
    /\ Len(trees) = 3
    /\ \A i \in 1..3 : /\ trees[i].root = stark_proof.commitments[i]
                       /\ trees[i].sizes = ColumnSizes(trees[i].root)

\* ------------------------------------------------------------- the inputs
\* The memories an input can carry.
Mems == { [a \in Addrs |-> (a + k) % 4] : k \in 0..1 }

RECURSIVE SeqsUpTo(_, _)
SeqsUpTo(S, n) ==
    IF n = 0 THEN { <<>> }
    ELSE LET shorter == SeqsUpTo(S, n - 1)
         IN  shorter \cup { Append(q, x) : q \in shorter, x \in S }

\* CairoInput. The boundary states of the run are only copied into the claim:
\* one pair of them is given, the others are what a tampered claim carries.
Inputs ==
    [ public_mem_addresses : SeqsUpTo(Addrs, MaxPubMem),
      mem : Mems,
      initial_state : {0},
      final_state : {1},
      ret : LogRows,
      range_check_builtin : {4} ]

\* ClaimGenerator::write_trace of each sub-component: the claim it reports.
GeneratedClaim(kind, in) ==
    CASE kind = "ret" -> SubClaim(in.ret)
      [] kind = "range_check_builtin" -> SubClaim(in.range_check_builtin)
      [] kind = "memory_addr_to_id" -> SubClaim(MemLogSize)
      [] kind = "memory_id_to_value" -> SubClaim(MemLogSize)
      [] kind = "range_check9_9" -> SubClaim(RC9_9_CONST_LOG_SIZE)

EmptyClaim ==
    [ public_memory |-> <<>>, initial_state |-> 0, final_state |-> 0, ret |-> <<>>,
      range_check_builtin |-> SubClaim(0), memory_addr_to_id |-> SubClaim(0),
      memory_id_to_value |-> SubClaim(0), range_check9_9 |-> SubClaim(0) ]

EmptyInteractionClaim ==
    [ ret |-> <<>>, range_check_builtin |-> SubInteractionClaim(0),
      memory_addr_to_id |-> SubInteractionClaim(0),
      memory_id_to_value |-> SubInteractionClaim(0),
      range_check9_9 |-> SubInteractionClaim(0) ]

NoElement == [z |-> 0, alpha |-> 0]
NoElements ==
    [ memory_addr_to_id_lookup |-> NoElement, memory_id_to_value_lookup |-> NoElement,
      range9_9_lookup |-> NoElement ]

NoStarkProof ==
    [ commitments |-> <<>>, seal |-> [components |-> <<>>, channel |-> ChannelDefault] ]

NoProof ==
    [ claim |-> EmptyClaim, interaction_claim |-> EmptyInteractionClaim,
      stark_proof |-> NoStarkProof ]

\* ------------------------------------------------------------------ state
VARIABLES
    input,                  \* the CairoInput given to prove_cairo
    debug_assertions,       \* the build profile: TRUE when debug_assert! is compiled in
    ppc,                    \* prove_cairo: the phase reached
    pchannel,               \* prove_cairo: channel
    ptrees,                 \* prove_cairo: the trees commitment_scheme holds
    pclaim,                 \* prove_cairo: claim
    pelements,              \* prove_cairo: interaction_elements
    pinteraction,           \* prove_cairo: interaction_claim
    plog,                   \* prove_cairo: the operations executed, in order
    presult,                \* prove_cairo: "none", "Ok" or "ProvingError"
    proof,                  \* the CairoProof prove_cairo returned
    pwired,                 \* prove_cairo: the relation elements handed to each
                            \*              write_interaction_trace, in call order
    tamper,                 \* what was changed in the proof before verification
    vproof,                 \* the CairoProof given to verify_cairo
    vpc,                    \* verify_cairo: the step reached
    vchannel,               \* verify_cairo: channel
    vtrees,                 \* verify_cairo: commitment_scheme_verifier's trees
    velements,              \* verify_cairo: interaction_elements
    vcomponents,            \* verify_cairo: components
    vlog,                   \* verify_cairo: the operations executed, in order
    vresult                 \* verify_cairo: "none", "Ok", "InvalidLogupSum",
                            \*               "Stark" or "panic"

pvars == << input, debug_assertions, ppc, pchannel, ptrees, pclaim, pelements, pinteraction, plog,
            presult, proof, pwired >>
vvars == << vproof, vpc, vchannel, vtrees, velements, vcomponents, vlog, vresult >>
vars == << pvars, tamper, vvars >>

Init ==
    /\ input \in Inputs
    /\ debug_assertions \in BOOLEAN
    /\ ppc = "start"
    /\ pchannel = ChannelDefault
    /\ ptrees = <<>>
    /\ pclaim = EmptyClaim
    /\ pelements = NoElements
    /\ pinteraction = EmptyInteractionClaim
    /\ plog = <<>>
    /\ presult = "none"
    /\ proof = NoProof
    /\ tamper = "none"
    /\ vproof = NoProof
    /\ vpc = "idle"
    /\ vchannel = ChannelDefault
    /\ vtrees = <<>>
    /\ velements = NoElements
    /\ vcomponents = <<>>
    /\ vlog = <<>>
    /\ vresult = "none"
    /\ pwired = <<>>

\* ------------------------------------------------------------ prove_cairo
\* Mutant: memory_id_to_value's generator is called before memory_addr_to_id's.
Kinds_swapped ==
    << "ret", "range_check_builtin", "memory_id_to_value", "memory_addr_to_id",
       "range_check9_9" >>

\* The sub-components in the order prove_cairo calls their generators.
Kinds ==
    << "ret", "range_check_builtin", "memory_addr_to_id", "memory_id_to_value",
       "range_check9_9" >>

\* The columns the five write_trace calls put into the base tree, in call order.
BaseTraceColumns(in) ==
    [k \in 1..5 |-> Column(Kinds[k], GeneratedClaim(Kinds[k], in).log_size)]

\* The generator each write_trace call is handed to register inputs into
\* (lines 279, 282, 287); "none" where it is handed no generator.
WriteTraceFeeds ==
    << "memory_id_to_value", "memory_id_to_value", "none", "range_check9_9", "none" >>

\* Mutant: the public memory is added after the traces are written.
BaseTraceCalls_public_memory_last(in) ==
    [k \in 1..5 |-> [op |-> "write_trace", on |-> Kinds[k], feeds |-> WriteTraceFeeds[k]]]
    \o [i \in 1..Len(in.public_mem_addresses) |->
          [op |-> "add_inputs", on |-> "memory_id_to_value", feeds |-> "memory_id_to_value"]]

\* The generator calls of lines 272-289, in order: add_inputs for every public
\* memory address, then the five write_trace calls. on is the generator called,
\* feeds the generator whose inputs the call registers.
BaseTraceCalls(in) ==
    [i \in 1..Len(in.public_mem_addresses) |->
         [op |-> "add_inputs", on |-> "memory_id_to_value", feeds |-> "memory_id_to_value"]]
    \o [k \in 1..5 |-> [op |-> "write_trace", on |-> Kinds[k], feeds |-> WriteTraceFeeds[k]]]

\* The calls as they appear in the operation log.
BaseTraceOps(in) ==
    LET calls == BaseTraceCalls(in)
    IN  [i \in 1..Len(calls) |-> calls[i].op \o ":" \o calls[i].on]

\* Lines 248-303: public memory, the base trace, the claim and its commitment.
ProveBaseTrace ==
    /\ ppc = "start"
    /\ LET public_memory ==
               [i \in 1..Len(input.public_mem_addresses) |->
                    [addr |-> input.public_mem_addresses[i],
                     val |-> input.mem[input.public_mem_addresses[i]]]]
           claim ==
               [ public_memory |-> public_memory,
                 initial_state |-> input.initial_state,
                 final_state |-> input.final_state,
                 ret |-> << GeneratedClaim("ret", input) >>,
                 range_check_builtin |-> GeneratedClaim("range_check_builtin", input),
                 memory_addr_to_id |-> GeneratedClaim("memory_addr_to_id", input),
                 memory_id_to_value |-> GeneratedClaim("memory_id_to_value", input),
                 range_check9_9 |-> GeneratedClaim("range_check9_9", input) ]
           cols == BaseTraceColumns(input)
       IN  /\ pclaim' = claim
           /\ pchannel' = TreeBuilder_commit(cols, CairoClaim_mix_into(claim, pchannel))
           /\ ptrees' = Append(ptrees, cols)
           /\ plog' = plog \o BaseTraceOps(input) \o << "mix_claim", "commit:base" >>
    /\ ppc' = "base"
    /\ UNCHANGED << input, debug_assertions, pelements, pinteraction, presult, proof, pwired,
                    tamper, vvars >>

\* Line 306: the interaction elements.
ProveDraw ==
    /\ ppc = "base"
    /\ LET d == CairoInteractionElements_draw(pchannel)
       IN  /\ pelements' = d[1]
           /\ pchannel' = d[2]
    /\ plog' = Append(plog, "draw")
    /\ ppc' = "drawn"
    /\ UNCHANGED << input, debug_assertions, ptrees, pclaim, pinteraction, presult, proof,
                    pwired, tamper, vvars >>

\* The claimed sums of an honest interaction trace: ret and range_check_builtin
\* consume memory values (r, b), memory_id_to_value supplies them and the
\* public memory and consumes range checks (q), range_check9_9 supplies those.
\* b is fixed by the builtin segment.
InteractionTraceSums(claim, elements, r, q) ==
    LET b == claim.range_check_builtin.log_size % FieldOrder IN
    [ ret |-> << SubInteractionClaim(r) >>,
      range_check_builtin |-> SubInteractionClaim(b),
      memory_addr_to_id |-> SubInteractionClaim(0),
      memory_id_to_value |->
          SubInteractionClaim(
              FAdd(FNeg(FAdd(public_memory_sum(claim, elements), FAdd(r, b))), q)),
      range_check9_9 |-> SubInteractionClaim(FNeg(q)) ]

\* The columns the five write_interaction_trace calls put into the interaction
\* tree, in call order.
InteractionTraceColumns(claim) ==
    << Column("ret", claim.ret[1].log_size),
       Column("range_check_builtin", claim.range_check_builtin.log_size),
       Column("memory_addr_to_id", claim.memory_addr_to_id.log_size),
       Column("memory_id_to_value", claim.memory_id_to_value.log_size),
       Column("range_check9_9", claim.range_check9_9.log_size) >>

\* The relation elements each write_interaction_trace call is given, lines
\* 310-332, in call order.
InteractionTraceWiring(elements) ==
    << [kind |-> "ret", elements |-> <<elements.memory_id_to_value_lookup>>],
       [kind |-> "range_check_builtin",
        elements |-> <<elements.memory_id_to_value_lookup>>],
       [kind |-> "memory_addr_to_id", elements |-> <<elements.memory_addr_to_id_lookup>>],
       [kind |-> "memory_id_to_value",
        elements |-> <<elements.memory_id_to_value_lookup, elements.range9_9_lookup>>],
       [kind |-> "range_check9_9", elements |-> <<elements.range9_9_lookup>>] >>

\* Lines 309-348: the interaction trace, the interaction claim, the
\* debug_assert! of the logup sum (lines 342-346, evaluated in a debug build
\* only) and the commitment.
ProveInteractionTrace ==
    /\ ppc = "drawn"
    /\ \E r \in Felts, q \in Felts :
         LET ic == InteractionTraceSums(pclaim, pelements, r, q)
             cols == InteractionTraceColumns(pclaim)
         IN  /\ debug_assertions => lookup_sum_valid(pclaim, pelements, ic)
             /\ pinteraction' = ic
             /\ pchannel' = TreeBuilder_commit(cols, CairoInteractionClaim_mix_into(ic, pchannel))
             /\ ptrees' = Append(ptrees, cols)
    /\ pwired' = InteractionTraceWiring(pelements)
    /\ plog' = plog \o [k \in 1..5 |-> "write_interaction_trace:" \o Kinds[k]]
                    \o (IF debug_assertions THEN << "lookup_sum_valid" >> ELSE <<>>)
                    \o << "mix_interaction_claim", "commit:interaction" >>
    /\ ppc' = "interaction"
    /\ UNCHANGED << input, debug_assertions, pclaim, pelements, presult, proof, tamper, vvars >>

\* Mutant: range_check_builtin's selector is generated with the ret claim's size.
FixedTraceColumns_wrong_size(claim) ==
    [i \in 1..Len(claim.ret) |->
         Column("ret", Claim_log_sizes(Entry("ret", i, claim.ret[i]))[3][1])]
    \o << Column("range_check_builtin",
                 Claim_log_sizes(Entry("ret", 1, claim.ret[1]))[3][1]),
          Column("memory_addr_to_id",
                 Claim_log_sizes(Entry("memory_addr_to_id", 0, claim.memory_addr_to_id))[3][1]),
          Column("memory_id_to_value",
                 Claim_log_sizes(Entry("memory_id_to_value", 0, claim.memory_id_to_value))[3][1]),
          Column("range_check9_9", RC9_9_CONST_LOG_SIZE) >>

\* The selector columns of lines 352-363, in the order of lines 365-371.
FixedTraceColumns(claim) ==
    [i \in 1..Len(claim.ret) |->
         Column("ret", Claim_log_sizes(Entry("ret", i, claim.ret[i]))[3][1])]
    \o << Column("range_check_builtin",
                 Claim_log_sizes(Entry("range_check_builtin", 0, claim.range_check_builtin))[3][1]),
          Column("memory_addr_to_id",
                 Claim_log_sizes(Entry("memory_addr_to_id", 0, claim.memory_addr_to_id))[3][1]),
          Column("memory_id_to_value",
                 Claim_log_sizes(Entry("memory_id_to_value", 0, claim.memory_id_to_value))[3][1]),
          Column("range_check9_9", RC9_9_CONST_LOG_SIZE) >>

\* Lines 351-375: the fixed trace and its commitment.
ProveFixedTrace ==
    /\ ppc = "interaction"
    /\ LET cols == FixedTraceColumns(pclaim)
       IN  /\ pchannel' = TreeBuilder_commit(cols, pchannel)
           /\ ptrees' = Append(ptrees, cols)
    /\ plog' = plog \o << "gen_is_first", "commit:constant" >>
    /\ ppc' = "fixed"
    /\ UNCHANGED << input, debug_assertions, pclaim, pelements, pinteraction, presult, proof,
                    pwired, tamper, vvars >>

\* Lines 378-388: the component provers and the engine's prove, which may fail.
ProveStark ==
    /\ ppc = "fixed"
    /\ \E engine \in {"Ok", "Err"} :
         LET comps == provers(CairoComponents_new(pclaim, pelements, pinteraction))
         IN  IF engine = "Ok"
             THEN /\ presult' = "Ok"
                  /\ proof' = [ claim |-> pclaim, interaction_claim |-> pinteraction,
                                stark_proof |-> Engine_prove(comps, pchannel, ptrees) ]
             ELSE /\ presult' = "ProvingError"
                  /\ proof' = proof
    /\ plog' = plog \o << "components", "prove" >>
    /\ ppc' = "done"
    /\ UNCHANGED << input, debug_assertions, pchannel, ptrees, pclaim, pelements, pinteraction,
                    pwired, tamper, vvars >>

\* ------------------------------------------- the proof on its way to verify
\* verify_cairo takes any well-typed CairoProof: the one prove_cairo returned,
\* or that proof with one field changed.
Handed(p, what) ==
    /\ ppc = "done"
    /\ presult = "Ok"
    /\ vpc = "idle"
    /\ vproof' = p
    /\ tamper' = what
    /\ vpc' = "start"
    /\ UNCHANGED << pvars, vchannel, vtrees, velements, vcomponents, vlog, vresult >>

Deliver == Handed(proof, "none")

TamperPublicMemory ==
    \/ \E i \in 1..Len(proof.claim.public_memory) :
         \E v \in Vals \ {proof.claim.public_memory[i].val} :
           Handed([proof EXCEPT !.claim.public_memory[i].val = v], "public_memory")
    \/ \E a \in Addrs :
         Handed([proof EXCEPT !.claim.public_memory = Append(@, [addr |-> a, val |-> 0])],
                "public_memory")

TamperInitialState ==
    \E st \in VmStates \ {proof.claim.initial_state} :
      Handed([proof EXCEPT !.claim.initial_state = st], "initial_state")

TamperFinalState ==
    \E st \in VmStates \ {proof.claim.final_state} :
      Handed([proof EXCEPT !.claim.final_state = st], "final_state")

SubClaimFields ==
    << "range_check_builtin", "memory_addr_to_id", "memory_id_to_value", "range_check9_9" >>

TamperClaim ==
    \/ \E i \in 1..Len(proof.claim.ret) :
         Handed([proof EXCEPT !.claim.ret[i].log_size = @ + 1], "claim:ret")
    \/ \E k \in 1..4 :
         Handed([proof EXCEPT !.claim[SubClaimFields[k]].log_size = @ + 1],
                "claim:" \o SubClaimFields[k])
    \/ Handed([proof EXCEPT !.claim.ret = Append(@, @[1])], "claim:ret:push")
    \/ Handed([proof EXCEPT !.claim.ret = Front(@)], "claim:ret:pop")

TamperClaimedSum ==
    \E delta \in Felts \ {0} :
      \/ Handed([proof EXCEPT !.interaction_claim.ret[1].claimed_sum = FAdd(@, delta)],
                "claimed_sum:ret")
      \/ \E k \in 1..4 :
           Handed([proof EXCEPT !.interaction_claim[SubClaimFields[k]].claimed_sum =
                                     FAdd(@, delta)],
                  "claimed_sum:" \o SubClaimFields[k])

TamperInteractionRet ==
    \/ \E sum \in Felts :
         Handed([proof EXCEPT !.interaction_claim.ret = Append(@, SubInteractionClaim(sum))],
                "interaction_claim:ret:push")
    \/ Handed([proof EXCEPT !.interaction_claim.ret = Front(@)], "interaction_claim:ret:pop")

TamperCommitments ==
    \/ Handed([proof EXCEPT !.stark_proof.commitments = Front(@)], "commitments:pop")
    \/ \E i \in 1..Len(proof.stark_proof.commitments) :
         Handed([proof EXCEPT !.stark_proof.commitments[i] = Front(@)], "commitments:root")

\* ----------------------------------------------------------- verify_cairo
VerifyStep(from, to, op) ==
    /\ vpc = from
    /\ vpc' = to
    /\ vlog' = Append(vlog, op)
    /\ UNCHANGED << pvars, tamper, vproof >>

\* stark_proof.commitments[i - 1] is an index out of bounds on a short vector.
commit_panics(stark_proof, i) == Len(stark_proof.commitments) < i

\* commitment_scheme_verifier.commit(stark_proof.commitments[i - 1],
\*                                   &claim.log_sizes()[i - 1], channel).
VerifyCommit(i) ==
    IF commit_panics(vproof.stark_proof, i)
    THEN /\ vresult' = "panic"
         /\ UNCHANGED << vchannel, vtrees >>
    ELSE LET c == Verifier_commit(vproof.stark_proof.commitments[i],
                                  CairoClaim_log_sizes(vproof.claim)[i], vchannel)
         IN  /\ vtrees' = Append(vtrees, c[1])
             /\ vchannel' = c[2]
             /\ vresult' = vresult

\* Line 404.
VerifyMixClaim ==
    /\ VerifyStep("start", "mixed", "mix_claim")
    /\ vchannel' = CairoClaim_mix_into(vproof.claim, vchannel)
    /\ UNCHANGED << vtrees, velements, vcomponents, vresult >>

\* Mutant: lines 405 and 406 swapped, the elements are drawn before the base
\* tree is committed.
VerifyCommitBase_after_draw ==
    /\ vpc = "mixed"
    /\ vlog' = vlog \o << "draw", "commit:base" >>
    /\ LET d == CairoInteractionElements_draw(vchannel)
       IN  /\ velements' = d[1]
           /\ IF commit_panics(vproof.stark_proof, 1)
              THEN /\ vresult' = "panic"
                   /\ vpc' = "done"
                   /\ vchannel' = d[2]
                   /\ vtrees' = vtrees
              ELSE LET c == Verifier_commit(vproof.stark_proof.commitments[1],
                                            CairoClaim_log_sizes(vproof.claim)[1], d[2])
                   IN  /\ vtrees' = Append(vtrees, c[1])
                       /\ vchannel' = c[2]
                       /\ vresult' = vresult
                       /\ vpc' = "drawn"
    /\ UNCHANGED << pvars, tamper, vproof, vcomponents >>

\* Line 405.
VerifyCommitBase ==
    /\ VerifyStep("mixed", IF commit_panics(vproof.stark_proof, 1) THEN "done" ELSE "base",
                  "commit:base")
    /\ VerifyCommit(1)
    /\ UNCHANGED << velements, vcomponents >>

\* Line 406.
VerifyDraw ==
    /\ VerifyStep("base", "drawn", "draw")
    /\ LET d == CairoInteractionElements_draw(vchannel)
       IN  /\ velements' = d[1]
           /\ vchannel' = d[2]
    /\ UNCHANGED << vtrees, vcomponents, vresult >>

\* Mutant: a failed logup check is not returned.
VerifyLookupSum_ignoring_failure ==
    /\ vpc = "drawn"
    /\ vlog' = Append(vlog, "lookup_sum_valid")
    /\ IF lookup_sum_panics(vproof.interaction_claim)
       THEN vresult' = "panic" /\ vpc' = "done"
       ELSE vresult' = vresult /\ vpc' = "checked"
    /\ UNCHANGED << pvars, tamper, vproof, vchannel, vtrees, velements, vcomponents >>

\* Lines 407-409.
VerifyLookupSum ==
    /\ vpc = "drawn"
    /\ vlog' = Append(vlog, "lookup_sum_valid")
    /\ IF lookup_sum_panics(vproof.interaction_claim)
       THEN vresult' = "panic" /\ vpc' = "done"
       ELSE IF ~lookup_sum_valid(vproof.claim, velements, vproof.interaction_claim)
            THEN vresult' = "InvalidLogupSum" /\ vpc' = "done"
            ELSE vresult' = vresult /\ vpc' = "checked"
    /\ UNCHANGED << pvars, tamper, vproof, vchannel, vtrees, velements, vcomponents >>

\* Mutant: the interaction claim is not absorbed by the verifier.
VerifyMixInteractionClaim_skipped ==
    /\ VerifyStep("checked", "imixed", "mix_interaction_claim")
    /\ UNCHANGED << vchannel, vtrees, velements, vcomponents, vresult >>

\* Line 410.
VerifyMixInteractionClaim ==
    /\ VerifyStep("checked", "imixed", "mix_interaction_claim")
    /\ vchannel' = CairoInteractionClaim_mix_into(vproof.interaction_claim, vchannel)
    /\ UNCHANGED << vtrees, velements, vcomponents, vresult >>

\* Line 411.
VerifyCommitInteraction ==
    /\ VerifyStep("imixed",
                  IF commit_panics(vproof.stark_proof, 2) THEN "done" ELSE "interaction",
                  "commit:interaction")
    /\ VerifyCommit(2)
    /\ UNCHANGED << velements, vcomponents >>

\* Mutant: line 414 reads commitments[1] and log_sizes()[1] again.
VerifyCommitFixed_wrong_index ==
    /\ VerifyStep("interaction",
                  IF commit_panics(vproof.stark_proof, 2) THEN "done" ELSE "fixed",
                  "commit:constant")
    /\ VerifyCommit(2)
    /\ UNCHANGED << velements, vcomponents >>

\* Line 414.
VerifyCommitFixed ==
    /\ VerifyStep("interaction",
                  IF commit_panics(vproof.stark_proof, 3) THEN "done" ELSE "fixed",
                  "commit:constant")
    /\ VerifyCommit(3)
    /\ UNCHANGED << velements, vcomponents >>

\* Lines 416-418.
VerifyComponents ==
    /\ VerifyStep("fixed", "built", "components")
    /\ vcomponents' =
           components(CairoComponents_new(vproof.claim, velements, vproof.interaction_claim))
    /\ UNCHANGED << vchannel, vtrees, velements, vresult >>

\* Mutant: the engine's verdict is dropped and Ok returned.
VerifyStark_swallowing_error ==
    /\ VerifyStep("built", "done", "verify")
    /\ vresult' = "Ok"
    /\ UNCHANGED << vchannel, vtrees, velements, vcomponents >>

\* Lines 420-426.
VerifyStark ==
    /\ VerifyStep("built", "done", "verify")
    /\ vresult' = IF Engine_verify(vcomponents, vchannel, vtrees, vproof.stark_proof)
                  THEN "Ok" ELSE "Stark"
    /\ UNCHANGED << vchannel, vtrees, velements, vcomponents >>

Next ==
    \/ ProveBaseTrace
    \/ ProveDraw
    \/ ProveInteractionTrace
    \/ ProveFixedTrace
    \/ ProveStark
    \/ Deliver
    \/ TamperPublicMemory
    \/ TamperInitialState
    \/ TamperFinalState
    \/ TamperClaim
    \/ TamperClaimedSum
    \/ TamperInteractionRet
    \/ TamperCommitments
    \/ VerifyMixClaim
    \/ VerifyCommitBase
    \/ VerifyDraw
    \/ VerifyLookupSum
    \/ VerifyMixInteractionClaim
    \/ VerifyCommitInteraction
    \/ VerifyCommitFixed
    \/ VerifyComponents
    \/ VerifyStark

Spec == Init /\ [][Next]_vars

\* ----------------------------------------------------------- properties
EntryKinds(es) == [i \in 1..Len(es) |-> es[i].kind]

RECURSIVE AbsorbedKinds(_, _)
\* The kinds of the items with the given tag in a digest, in order.
AbsorbedKinds(d, tag) ==
    IF d = <<>> THEN <<>>
    ELSE (IF Head(d).tag = tag THEN <<Head(d).kind>> ELSE <<>>)
             \o AbsorbedKinds(Tail(d), tag)

IsPrefix(a, b) == Len(a) <= Len(b) /\ SubSeq(b, 1, Len(a)) = a

VerifyErrors == {"InvalidLogupSum", "Stark"}

\* C1: round trip: verify_cairo on the proof an honest prove_cairo returned,
\* unchanged, ends with Ok.
C1_RoundTrip == (tamper = "none" /\ vpc = "done") => vresult = "Ok"

C1_Witness == tamper = "none" /\ vpc = "done" /\ vresult = "Ok" /\ Len(vlog) = 9

\* C2: verify_cairo never panics on a well-typed proof.
C2_VerifyTotal == vresult # "panic"

\* C3: lookup_sum_valid is true exactly when the public memory terms plus the
\* claimed sums of every sub-component instance, every element of
\* interaction_claim.ret included, add up to zero.
AllClaimedSums(ic) ==
    FAdd(SumSeq([i \in 1..Len(ic.ret) |-> ic.ret[i].claimed_sum]),
         SumSeq(<< ic.range_check_builtin.claimed_sum, ic.memory_addr_to_id.claimed_sum,
                   ic.memory_id_to_value.claimed_sum, ic.range_check9_9.claimed_sum >>))

C3_LookupSumCountsEveryInstance ==
    (vpc = "drawn" /\ ~lookup_sum_panics(vproof.interaction_claim)) =>
        (lookup_sum_valid(vproof.claim, velements, vproof.interaction_claim)
         <=> FAdd(public_memory_sum(vproof.claim, velements),
                  AllClaimedSums(vproof.interaction_claim)) = 0)

\* C4: the sub-components CairoClaim::mix_into absorbs into the channel are
\* those CairoClaim::log_sizes enumerates, in the same order.
C4_MixIntoEnumeratesLogSizes ==
    ppc # "start" =>
        AbsorbedKinds(pchannel.digest, "claim")
            = EntryKinds(CairoClaim_log_sizes_entries(pclaim))

\* C5: CairoInteractionClaim::mix_into absorbs every field of the interaction
\* claim, in the order of the claim enumeration.
C5_InteractionMixIntoAbsorbsEveryField ==
    ppc \in {"interaction", "fixed", "done"} =>
        AbsorbedKinds(pchannel.digest, "interaction_claim")
            = EntryKinds(CairoInteractionClaim_fields(pinteraction))

\* C6: an accepted proof with one field of its claim changed is rejected; here
\* for the fields initial_state and final_state.
C6_TamperedStateRejected ==
    (tamper \in {"initial_state", "final_state"} /\ vpc = "done") =>
        vresult \in VerifyErrors

\* C7: on a proof of prove_cairo, adding a nonzero delta to the claimed_sum of
\* one sub-component makes lookup_sum_valid false under the same elements, and
\* verify_cairo returns InvalidLogupSum.
ClaimedSumTampers == { "claimed_sum:" \o Kinds[k] : k \in 1..5 }

C7_LogupDeltaSensitivity ==
    tamper \in ClaimedSumTampers =>
        /\ lookup_sum_valid(proof.claim, pelements, proof.interaction_claim)
        /\ ~lookup_sum_valid(vproof.claim, pelements, vproof.interaction_claim)
        /\ vpc = "done" => vresult = "InvalidLogupSum"

C7_Witness ==
    /\ tamper = "claimed_sum:range_check9_9"
    /\ vpc = "done"
    /\ vresult = "InvalidLogupSum"
    /\ Len(proof.claim.ret) = 1

\* C8: the logup check follows the draw in every run that goes on, and a failed
\* check ends verify_cairo with InvalidLogupSum: nothing is absorbed, committed
\* or verified after it.
LogupFailed ==
    /\ \E i \in 1..Len(vlog) : vlog[i] = "lookup_sum_valid"
    /\ ~lookup_sum_panics(vproof.interaction_claim)
    /\ ~lookup_sum_valid(vproof.claim, velements, vproof.interaction_claim)

C8_LogupFailureIsHardRejection ==
    /\ \A i \in 1..Len(vlog) :
         (vlog[i] = "draw" /\ vpc # "drawn") =>
             (i < Len(vlog) /\ vlog[i + 1] = "lookup_sum_valid")
    /\ LogupFailed =>
         /\ vpc = "done"
         /\ vresult = "InvalidLogupSum"
         /\ vlog[Len(vlog)] = "lookup_sum_valid"
         /\ AbsorbedKinds(vchannel.digest, "interaction_claim") = <<>>
         /\ Len(vtrees) = 1

C8_Witness == LogupFailed /\ vresult = "InvalidLogupSum" /\ tamper = "public_memory"

\* C9: on a proof of prove_cairo, verify_cairo performs the transcript
\* operations of prove_cairo, in order and on the same values: its digest is at
\* every step a prefix of the prover's, its elements are the prover's, and at
\* the engine call the two channels are equal.
TranscriptOpNames ==
    { "mix_claim", "commit:base", "draw", "mix_interaction_claim",
      "commit:interaction", "commit:constant" }

RECURSIVE TranscriptOps(_)
TranscriptOps(log) ==
    IF log = <<>> THEN <<>>
    ELSE (IF Head(log) \in TranscriptOpNames THEN <<Head(log)>> ELSE <<>>)
             \o TranscriptOps(Tail(log))

C9_TranscriptSymmetry ==
    (tamper = "none" /\ vpc # "idle") =>
        /\ IsPrefix(vchannel.digest, pchannel.digest)
        /\ IsPrefix(TranscriptOps(vlog), TranscriptOps(plog))
        /\ (\E i \in 1..Len(vlog) : vlog[i] = "draw") => velements = pelements
        /\ vpc \in {"built", "done"} =>
               /\ vchannel = pchannel
               /\ TranscriptOps(vlog) = TranscriptOps(plog)

C9_Witness ==
    /\ tamper = "none"
    /\ vpc = "built"
    /\ vchannel = pchannel
    /\ Len(TranscriptOps(vlog)) = 6
    /\ velements = pelements

\* C10: CairoComponents::new builds one component per sub-component occurrence
\* of the claim, len(claim.ret) + 4 of them, in the order of
\* CairoClaim::log_sizes, each at the next location of the shared allocator.
C10_OneComponentPerOccurrence ==
    vpc = "built" =>
        /\ Len(vcomponents) = Len(vproof.claim.ret) + 4
        /\ [i \in 1..Len(vcomponents) |-> vcomponents[i].kind]
               = EntryKinds(CairoClaim_log_sizes_entries(vproof.claim))
        /\ \A i \in 1..Len(vcomponents) :
               vcomponents[i].location = <<i - 1, i - 1, i - 1>>

\* C11: no recovery from an engine error: a failed prove leaves prove_cairo
\* with ProvingError and no proof; verify_cairo ends with Stark exactly when the
\* engine's verify was called and rejected, and with Ok only when the logup
\* check passed and the engine's verify accepted.
EngineVerifyCalled == Len(vlog) > 0 /\ vlog[Len(vlog)] = "verify"

C11_ErrorPropagation ==
    /\ (ppc = "done" /\ presult = "ProvingError") =>
           (proof = NoProof /\ vpc = "idle" /\ vproof = NoProof)
    /\ (ppc = "done" /\ presult = "Ok") => proof # NoProof
    /\ vresult = "Stark" <=>
           /\ EngineVerifyCalled
           /\ ~Engine_verify(vcomponents, vchannel, vtrees, vproof.stark_proof)
    /\ vresult = "Ok" =>
           /\ EngineVerifyCalled
           /\ Engine_verify(vcomponents, vchannel, vtrees, vproof.stark_proof)
           /\ \E i \in 1..Len(vlog) : vlog[i] = "lookup_sum_valid"
           /\ lookup_sum_valid(vproof.claim, velements, vproof.interaction_claim)

C11_Witness ==
    /\ vresult = "Stark"
    /\ EngineVerifyCalled
    /\ lookup_sum_valid(vproof.claim, velements, vproof.interaction_claim)

C11_WitnessProvingError == ppc = "done" /\ presult = "ProvingError" /\ proof = NoProof

\* The interaction elements have been drawn.
Drew(log) == \E i \in 1..Len(log) : log[i] = "draw"

\* ------------------------------------------------------ order of operations
RECURSIVE Count(_, _)
Count(log, op) ==
    IF log = <<>> THEN 0
    ELSE (IF Head(log) = op THEN 1 ELSE 0) + Count(Tail(log), op)

Before(log, a, i) == \E j \in 1..(i - 1) : log[j] = a

AfterDrawOps ==
    { "write_interaction_trace:" \o Kinds[k] : k \in 1..5 }
        \cup { "lookup_sum_valid", "mix_interaction_claim" }

DrawInPlace(log) ==
    /\ Count(log, "draw") <= 1
    /\ \A i \in 1..Len(log) :
         /\ log[i] = "draw" =>
                (Before(log, "mix_claim", i) /\ Before(log, "commit:base", i))
         /\ log[i] \in {"mix_claim", "commit:base"} => ~Before(log, "draw", i)
         /\ log[i] \in AfterDrawOps => Before(log, "draw", i)

\* C13: in prove_cairo and in verify_cairo the interaction elements are drawn
\* at most once, after the claim is mixed and the base tree committed, and
\* before any interaction trace, the logup check and the interaction claim's
\* mix; every run that returns has drawn exactly once. prove_cairo makes the
\* logup check in a debug build only.
C13_ChallengeOrdering ==
    /\ DrawInPlace(plog)
    /\ DrawInPlace(vlog)
    /\ ppc = "done" => Count(plog, "draw") = 1
    /\ ppc \in {"interaction", "fixed", "done"} =>
         Count(plog, "lookup_sum_valid") = (IF debug_assertions THEN 1 ELSE 0)
    /\ vresult \in {"Ok", "InvalidLogupSum", "Stark"} => Count(vlog, "draw") = 1

C13_Witness ==
    /\ ppc = "done"
    /\ ~debug_assertions
    /\ vpc = "done"
    /\ vresult = "Ok"
    /\ Count(plog, "draw") = 1
    /\ Count(vlog, "draw") = 1
    /\ Count(vlog, "mix_interaction_claim") = 1


TreeOrder == << "commit:base", "commit:interaction", "commit:constant" >>

IsCommit(op) == op \in { TreeOrder[i] : i \in 1..3 }

CommitOps(log) == SelectSeq(log, IsCommit)

CommitsBefore(log, engine) ==
    \A i \in 1..Len(log) :
        log[i] = engine => CommitOps(SubSeq(log, 1, i - 1)) = TreeOrder

\* C14 as stated: every run that returns, of prove_cairo and of verify_cairo,
\* has committed exactly three trees, base, interaction, constant.
C14_ThreeTreesPerRun ==
    /\ ppc = "done" => CommitOps(plog) = TreeOrder
    /\ vresult \in {"Ok", "InvalidLogupSum", "Stark"} => CommitOps(vlog) = TreeOrder

\* C14, amended: the trees are committed in the order base, interaction,
\* constant, at most three per run; prove_cairo commits all three; verify_cairo
\* records tree i from stark_proof.commitments[i] with sizes
\* claim.log_sizes()[i]; the engine is called only after all three commitments;
\* a verify_cairo run that returns InvalidLogupSum has committed the base tree
\* only.
C14_TreesCommittedInOrder ==
    /\ IsPrefix(CommitOps(plog), TreeOrder)
    /\ IsPrefix(CommitOps(vlog), TreeOrder)
    /\ Len(ptrees) = Len(CommitOps(plog))
    /\ ppc = "done" => CommitOps(plog) = TreeOrder
    /\ CommitsBefore(plog, "prove")
    /\ CommitsBefore(vlog, "verify")
    /\ \A i \in 1..Len(vtrees) :
         /\ i <= Len(vproof.stark_proof.commitments)
         /\ vtrees[i].root = vproof.stark_proof.commitments[i]
         /\ vtrees[i].sizes = CairoClaim_log_sizes(vproof.claim)[i]
    /\ vresult \in {"Ok", "Stark"} => Len(vtrees) = 3 /\ CommitOps(vlog) = TreeOrder
    /\ vresult = "InvalidLogupSum" => Len(vtrees) = 1 /\ CommitOps(vlog) = << "commit:base" >>

C14_Witness ==
    /\ ppc = "done"
    /\ Len(ptrees) = 3
    /\ vresult = "Ok"
    /\ Len(vtrees) = 3
    /\ CommitOps(vlog) = TreeOrder


\* The calls of the base-trace phase that the operation log records.
LoggedBaseTraceCalls ==
    IF ppc = "start" THEN <<>> ELSE BaseTraceCalls(input)

\* C15: in prove_cairo's base-trace phase no call registers inputs into a
\* generator whose write_trace has already run: memory_id_to_value's
\* write_trace comes after every add_inputs and after ret's and
\* range_check_builtin's write_trace, and range_check9_9's after
\* memory_id_to_value's.
C15_ProducerAfterConsumers ==
    LET calls == LoggedBaseTraceCalls
        WriteTraceAt(g) ==
            { i \in 1..Len(calls) : calls[i].op = "write_trace" /\ calls[i].on = g }
        FeedsAt(g) == { j \in 1..Len(calls) : calls[j].feeds = g }
    IN  /\ ppc # "start" =>
              /\ IsPrefix(BaseTraceOps(input), plog)
              /\ Count(plog, "add_inputs:memory_id_to_value") = Len(input.public_mem_addresses)
              /\ \A k \in 1..5 : Cardinality(WriteTraceAt(Kinds[k])) = 1
        /\ \A k \in 1..5 :
             \A i \in WriteTraceAt(Kinds[k]) : \A j \in FeedsAt(Kinds[k]) : j < i
        /\ \A i \in WriteTraceAt("memory_id_to_value") :
             /\ \A j \in 1..Len(calls) : calls[j].op = "add_inputs" => j < i
             /\ \A j \in WriteTraceAt("ret") \cup WriteTraceAt("range_check_builtin") : j < i
             /\ \A j \in WriteTraceAt("range_check9_9") : i < j

C15_Witness ==
    /\ ppc = "base"
    /\ Len(input.public_mem_addresses) = MaxPubMem
    /\ Count(plog, "add_inputs:memory_id_to_value") = MaxPubMem
    /\ Count(plog, "write_trace:memory_id_to_value") = 1


\* The column of tree t that a component is allocated.
ColumnOf(trees, t, comp) == trees[t][comp.location[t] + 1]

OwnedInOrder(trees, comps) ==
    \A t \in 1..Len(trees) :
        /\ Len(trees[t]) = Len(comps)
        /\ \A i \in 1..Len(comps) :
             /\ comps[i].location[t] = i - 1
             /\ ColumnOf(trees, t, comps[i]).owner = comps[i].kind

\* C16: the columns prove_cairo writes into each tree are in the sub-component
\* order of CairoClaim::log_sizes and of CairoComponents::new, so the column at
\* each offset is the one of the component allocated that offset, in the prover
\* and in the verifier of the untampered proof.
C16_ColumnsFollowComponentOrder ==
    /\ \A t \in 1..Len(ptrees) :
         LET es == CairoClaim_log_sizes_entries(pclaim)
         IN  /\ Len(ptrees[t]) = Len(es)
             /\ \A j \in 1..Len(es) : ptrees[t][j].owner = es[j].kind
    /\ ppc \in {"interaction", "fixed", "done"} =>
         OwnedInOrder(ptrees, provers(CairoComponents_new(pclaim, pelements, pinteraction)))
    /\ (tamper = "none" /\ vpc \in {"built", "done"} /\ vcomponents # <<>>) =>
         OwnedInOrder(vproof.stark_proof.commitments, vcomponents)

C16_Witness ==
    /\ ppc = "done"
    /\ Len(ptrees) = 3
    /\ tamper = "none"
    /\ vpc = "built"
    /\ Len(vcomponents) = 5
    /\ ColumnOf(ptrees, 3, vcomponents[5]).owner = "range_check9_9"


\* C17: every selector column of the constant trace has the log size its
\* sub-component's claim reports for the constant tree (log_sizes()[2][0]), so
\* the sizes of the committed constant columns are claim.log_sizes()[2], the
\* sizes verify_cairo declares for that tree.
C17_ConstantColumnSizes ==
    /\ Len(ptrees) = 3 =>
         LET es == CairoClaim_log_sizes_entries(pclaim)
         IN  /\ Len(ptrees[3]) = Len(es)
             /\ \A j \in 1..Len(es) : ptrees[3][j].log_size = Claim_log_sizes(es[j])[3][1]
             /\ ColumnSizes(ptrees[3]) = CairoClaim_log_sizes(pclaim)[3]
    /\ (tamper = "none" /\ Len(vtrees) = 3) =>
         vtrees[3].sizes = ColumnSizes(vproof.stark_proof.commitments[3])

C17_Witness ==
    /\ ppc = "done"
    /\ pclaim.ret[1].log_size = 5
    /\ ColumnSizes(ptrees[3]) = << 5, 4, MemLogSize, MemLogSize, RC9_9_CONST_LOG_SIZE >>
    /\ tamper = "none"
    /\ Len(vtrees) = 3


PublicInputTampers == {"public_memory", "initial_state", "final_state"}

\* The claim with its public inputs taken from another claim.
WithPublicInputsOf(claim, other) ==
    [claim EXCEPT !.public_memory = other.public_memory,
                  !.initial_state = other.initial_state,
                  !.final_state = other.final_state]

\* C18: a claim handed to verify_cairo that differs from the proved claim only
\* in public_memory, initial_state or final_state leaves the channel after
\* CairoClaim::mix_into as the proved claim does, and verify_cairo draws the
\* interaction elements the prover drew.
C18_PublicInputsNotBound ==
    (tamper \in PublicInputTampers /\ vpc # "idle") =>
        /\ vproof.claim # proof.claim
        /\ WithPublicInputsOf(vproof.claim, proof.claim) = proof.claim
        /\ CairoClaim_mix_into(vproof.claim, ChannelDefault)
               = CairoClaim_mix_into(proof.claim, ChannelDefault)
        /\ vpc = "mixed" => vchannel = CairoClaim_mix_into(proof.claim, ChannelDefault)
        /\ Drew(vlog) => velements = pelements

C18_Witness ==
    /\ tamper = "final_state"
    /\ vproof.claim.final_state # proof.claim.final_state
    /\ Drew(vlog)
    /\ velements = pelements


\* The claimed sum the interaction claim stores for a component's sub-component.
StoredSum(ic, comp) ==
    IF comp.kind = "ret" THEN ic.ret[comp.idx].claimed_sum ELSE ic[comp.kind].claimed_sum

\* Every component has the relation elements its write_interaction_trace call
\* is given and the claimed sum stored for it.
WiredAs(comps, wiring, ic) ==
    \A i \in 1..Len(comps) :
        /\ \E j \in 1..Len(wiring) :
             /\ wiring[j].kind = comps[i].kind
             /\ wiring[j].elements = comps[i].elements
        /\ comps[i].claimed_sum = StoredSum(ic, comps[i])

\* C19: every evaluator built by CairoComponents::new is given the relation
\* elements that prove_cairo gave the same sub-component's
\* write_interaction_trace, and the claimed sum the interaction claim stores
\* for that sub-component, in the prover's components and in the verifier's.
C19_RelationWiring ==
    /\ ppc \in {"interaction", "fixed", "done"} =>
         LET comps == provers(CairoComponents_new(pclaim, pelements, pinteraction))
         IN  /\ Len(pwired) = Len(comps)
             /\ \A i \in 1..Len(comps) :
                  /\ comps[i].kind = pwired[i].kind
                  /\ comps[i].elements = pwired[i].elements
             /\ WiredAs(comps, pwired, pinteraction)
    /\ (ppc = "done" /\ presult = "Ok") =>
         WiredAs(proof.stark_proof.seal.components, pwired, proof.interaction_claim)
    /\ vpc \in {"built", "done"} =>
         WiredAs(vcomponents, InteractionTraceWiring(velements), vproof.interaction_claim)

C19_Witness ==
    /\ ppc = "done"
    /\ presult = "Ok"
    /\ Len(pwired) = 5
    /\ vpc = "built"
    /\ Len(vcomponents) = 5
    /\ vcomponents[4].elements = pwired[4].elements
    /\ Len(vcomponents[4].elements) = 2

====
